---- MODULE Spec2Model ----
(***************************************************************************)
(* Model of farl.py: the FARL agent (linear Q-function trained with a      *)
(* GTD2-style update, epsilon-greedy exploration on a linear schedule),    *)
(* its training loop, predict, save and load.                              *)
(*                                                                         *)
(* Numbers: Python floats are modelled as exact rationals <<num, den>>     *)
(* with den > 0, kept in lowest terms.  Vectors (numpy arrays) are         *)
(* sequences; Python index i is sequence index i + 1.                      *)
(***************************************************************************)
EXTENDS Integers, Sequences, FiniteSets, TLC

(***************************************************************************)
(* Bounds of the exploration.                                              *)
(***************************************************************************)
\* largest total_timesteps budget handed to learn
MaxTotal == 2
\* horizon of the environment: an episode is truncated at this length
MaxEpLen == 2
\* largest number of observation dimensions (pure-function specification)
MaxDims == 2
\* largest cardinality of an observation dimension (pure-function specification)
MaxCard == 2

(***************************************************************************)
(* Exact rational arithmetic.                                              *)
(***************************************************************************)
Abs(i) == IF i < 0 THEN -i ELSE i

RECURSIVE GCD(_, _)
GCD(a, b) == IF b = 0 THEN a ELSE GCD(b, a % b)

Norm(n, d) == LET g == GCD(Abs(n), d) IN <<n \div g, d \div g>>

Zero == <<0, 1>>
One == <<1, 1>>
Int2R(i) == <<i, 1>>

RAdd(x, y) ==
    LET g == GCD(x[2], y[2])
        l == (x[2] \div g) * y[2]
    IN  Norm(x[1] * (l \div x[2]) + y[1] * (l \div y[2]), l)
RNeg(x) == <<-x[1], x[2]>>
RSub(x, y) == RAdd(x, RNeg(y))
RMul(x, y) == Norm(x[1] * y[1], x[2] * y[2])
RDiv(x, y) == IF y[1] > 0 THEN Norm(x[1] * y[2], x[2] * y[1])
                          ELSE Norm(-(x[1] * y[2]), x[2] * (-y[1]))
RGt(x, y) == x[1] * y[2] > y[1] * x[2]
RLe(x, y) == ~RGt(x, y)

RECURSIVE SumTo(_, _)
\* f[1] + ... + f[k] for a sequence of rationals
SumTo(f, k) == IF k = 0 THEN Zero ELSE RAdd(SumTo(f, k - 1), f[k])

\* np.dot of two vectors of the same length
Dot(x, y) == SumTo([k \in 1..Len(x) |-> RMul(x[k], y[k])], Len(x))

RECURSIVE IntSum(_, _)
IntSum(f, k) == IF k = 0 THEN 0 ELSE IntSum(f, k - 1) + f[k]

RECURSIVE IntProd(_, _)
IntProd(f, k) == IF k = 0 THEN 1 ELSE IntProd(f, k - 1) * f[k]

(***************************************************************************)
(* get_linear_fn: the closure is the record of its captured variables.     *)
(***************************************************************************)
get_linear_fn(start, end, end_fraction) ==
    [start |-> start, end |-> end, end_fraction |-> end_fraction]

\* variant of func whose tail returns start
func_flat_start(f, progress_remaining) ==
    IF RGt(RSub(One, progress_remaining), f.end_fraction)
    THEN f.start
    ELSE RAdd(f.start,
              RDiv(RMul(RSub(One, progress_remaining), RSub(f.end, f.start)),
                   f.end_fraction))

\* func(progress_remaining) of the closure f
func(f, progress_remaining) ==
    IF RGt(RSub(One, progress_remaining), f.end_fraction)
    THEN f.end
    ELSE RAdd(f.start,
              RDiv(RMul(RSub(One, progress_remaining), RSub(f.end, f.start)),
                   f.end_fraction))

(***************************************************************************)
(* The environment collaborator: its observation space (MultiDiscrete      *)
(* nvec), its action count and its dynamics.  The environments used are    *)
(* deterministic stubs: step maps (observation, action) to the next        *)
(* observation, the reward and the terminated flag; reset answers with any *)
(* valid observation; a time limit truncates an episode at MaxEpLen steps. *)
(***************************************************************************)
RECURSIVE ObsOfLen(_, _)
\* all observations over the first k dimensions of nvec
ObsOfLen(nvec, k) ==
    IF k = 0 THEN {<<>>}
    ELSE {Append(s, v) : s \in ObsOfLen(nvec, k - 1), v \in 0..(nvec[k] - 1)}

\* the valid observations of an observation space
Observations(nvec) == ObsOfLen(nvec, Len(nvec))

\* position of observation s in the stub's enumeration of its observations
StubPos(nvec, s) ==
    IntSum([i \in 1..Len(nvec) |-> s[i] * IntProd(nvec, i - 1)], Len(nvec))

StubObs(nvec, j) == CHOOSE s \in Observations(nvec) : StubPos(nvec, s) = j

\* stub k: the action and k move the position, the last position is terminal
StubStep(nvec, n, k) ==
    LET P == IntProd(nvec, Len(nvec))
    IN  [x \in Observations(nvec) \X (0..(n - 1)) |->
            LET i == StubPos(nvec, x[1])
                j == (i + x[2] + k) % P
            IN  [obs        |-> StubObs(nvec, j),
                 reward     |-> (i + x[2]) % 2,
                 terminated |-> (j = P - 1)]]

StubKinds == {0, 1}

MakeEnv(nvec, n, k) == [nvec |-> nvec, n |-> n, step |-> StubStep(nvec, n, k)]

(***************************************************************************)
(* FARL.__init__                                                           *)
(***************************************************************************)
NoneBeta == <<>>

\* the keyword defaults of FARL.__init__
DefaultArgs ==
    [exploration_initial_eps |-> One,
     exploration_final_eps   |-> <<1, 20>>,
     exploration_fraction    |-> <<1, 10>>,
     gamma                   |-> <<9, 10>>,
     alpha                   |-> <<1, 100000>>,
     beta                    |-> NoneBeta,
     verbose                 |-> FALSE,
     feature_representation  |-> "fsr"]

\* n_obs for a feature representation
NObs(feature_representation, nvec) ==
    IF feature_representation = "fsr"
    THEN IntSum(nvec, Len(nvec))
    ELSE IntProd(nvec, Len(nvec))

\* variant of WeightLen without the bias slot
WeightLen_nobias(n_obs, n_act) == n_obs * n_act

\* n = self.n_obs * self.n_act + 1
WeightLen(n_obs, n_act) == n_obs * n_act + 1

InitPatterns == {0, 1}

\* a few of the vectors np.random.uniform(-1/sqrt(n), 1/sqrt(n), size=(n,))
\* can return: every coordinate is one of -1/n, 0, 1/n
UniformDraws(n) ==
    {[i \in 1..n |-> Norm(((i + k) % 3) - 1, n)] : k \in InitPatterns}

\* the object __init__ leaves behind, given the two random draws w0 and h0
Construct(env, a, w0, h0) ==
    LET sched == get_linear_fn(a.exploration_initial_eps,
                               a.exploration_final_eps,
                               a.exploration_fraction)
        n_obs == NObs(a.feature_representation, env.nvec)
        n     == WeightLen(n_obs, env.n)
    IN  [env                    |-> env,
         exploration_schedule   |-> sched,
         exploration_rate       |-> func(sched, One),
         gamma                  |-> a.gamma,
         alpha                  |-> a.alpha,
         beta                   |-> IF a.beta = NoneBeta
                                    THEN RDiv(a.alpha, Int2R(100))
                                    ELSE a.beta,
         verbose                |-> a.verbose,
         feature_representation |-> a.feature_representation,
         obs_nvec               |-> env.nvec,
         n_obs                  |-> n_obs,
         n_act                  |-> env.n,
         w                      |-> [i \in 1..n |-> IF i = n THEN Zero ELSE w0[i]],
         h                      |-> [i \in 1..n |-> IF i = n THEN Zero ELSE h0[i]]]

\* the agents FARL(env, **a) can return
Constructed(env, a) ==
    LET n == WeightLen(NObs(a.feature_representation, env.nvec), env.n)
    IN  {Construct(env, a, d[1], d[2]) :
            d \in {p \in UniformDraws(n) \X UniformDraws(n) : p[1] # p[2]}}

(***************************************************************************)
(* Feature encoders                                                        *)
(***************************************************************************)
\* _multi_discrete_to_binary: offset idx of dimension i is nvec[1]+..+nvec[i-1]
_multi_discrete_to_binary(self, s) ==
    LET m == IF Len(s) < Len(self.obs_nvec) THEN Len(s) ELSE Len(self.obs_nvec)
    IN  [j \in 1..self.n_obs |->
            IF \E i \in 1..m : j = IntSum(self.obs_nvec, i - 1) + s[i] + 1
            THEN 1 ELSE 0]

\* variant of onehot_idx multiplying by the previous dimension's cardinality
RECURSIVE onehot_idx_prev(_, _, _)
onehot_idx_prev(nvec, s, k) ==
    IF k = 1 THEN s[1]
    ELSE onehot_idx_prev(nvec, s, k - 1) * nvec[k - 1] + s[k]

RECURSIVE onehot_idx(_, _, _)
\* the reduce of _multi_discrete_to_onehot over the first k dimensions
onehot_idx(nvec, s, k) ==
    IF k = 1 THEN s[1]
    ELSE onehot_idx(nvec, s, k - 1) * nvec[k] + s[k]

_multi_discrete_to_onehot(self, s) ==
    [j \in 1..self.n_obs |->
        IF j = onehot_idx(self.obs_nvec, s, Len(s)) + 1 THEN 1 ELSE 0]

_extract_features(self, s) ==
    IF self.feature_representation = "fsr"
    THEN _multi_discrete_to_binary(self, s)
    ELSE _multi_discrete_to_onehot(self, s)

(***************************************************************************)
(* Linear Q-function and epsilon-greedy distribution                       *)
(***************************************************************************)
\* sequence index k lies in the slice [a * n_obs, (a + 1) * n_obs)
InBlock(self, a, k) == (k - 1) >= a * self.n_obs /\ (k - 1) < (a + 1) * self.n_obs

\* row a of feature_matrix in _get_q_values: the block of a, and the bias 1
FeatureRow(self, state, a) ==
    [k \in 1..WeightLen(self.n_obs, self.n_act) |->
        IF k = WeightLen(self.n_obs, self.n_act) THEN One
        ELSE IF InBlock(self, a, k) THEN Int2R(state[k - a * self.n_obs])
        ELSE Zero]

\* _get_q_values: one value per action 0..n_act-1
_get_q_values(self, state) ==
    [a \in 0..(self.n_act - 1) |-> Dot(FeatureRow(self, state, a), self.w)]

\* np.argmax: the first index holding the maximum
argmax(q) ==
    CHOOSE a \in DOMAIN q :
        /\ \A b \in DOMAIN q : RLe(q[b], q[a])
        /\ \A b \in DOMAIN q : b < a => RGt(q[a], q[b])

_action_proba_distribution(self, obs) ==
    LET base == RDiv(RMul(One, self.exploration_rate), Int2R(self.n_act))
        best_action == argmax(_get_q_values(self, obs))
    IN  [a \in 0..(self.n_act - 1) |->
            IF a = best_action
            THEN RAdd(base, RSub(One, self.exploration_rate))
            ELSE base]

\* the actions np.random.choice(n_act, p=p) can return
Choices(p) == {a \in DOMAIN p : RGt(p[a], Zero)}

(***************************************************************************)
(* GTD2 update                                                             *)
(***************************************************************************)
\* variant of BlockVec that sets the bias slot to 1, as FeatureRow does
BlockVec_bias(self, s, a) ==
    [k \in 1..WeightLen(self.n_obs, self.n_act) |->
        IF k = WeightLen(self.n_obs, self.n_act) THEN One
        ELSE IF InBlock(self, a, k) THEN Int2R(s[k - a * self.n_obs]) ELSE Zero]

\* x (and max_xp) of _update: zeros, with the block of action a set to s
BlockVec(self, s, a) ==
    [k \in 1..WeightLen(self.n_obs, self.n_act) |->
        IF InBlock(self, a, k) THEN Int2R(s[k - a * self.n_obs]) ELSE Zero]

\* variant of _update that takes the bootstrap branch whatever done is
_update_bootstrap(self, s, a, r, sp, done) ==
    LET x      == BlockVec(self, s, a)
        a_max  == argmax(_get_q_values(self, sp))
        max_xp == BlockVec(self, sp, a_max)
        xw     == Dot(x, self.w)
        xh     == Dot(x, self.h)
        delta  == RSub(RAdd(Int2R(r), RMul(self.gamma, Dot(max_xp, self.w))), xw)
    IN  [w |-> [k \in DOMAIN self.w |->
                  RAdd(self.w[k],
                       RMul(self.alpha,
                            RSub(RMul(delta, x[k]),
                                 RMul(RMul(self.gamma, xh), max_xp[k]))))],
         h |-> [k \in DOMAIN self.h |->
                  RAdd(self.h[k], RMul(RMul(self.beta, RSub(delta, xh)), x[k]))]]

\* the weights _update leaves in self.w and self.h
_update(self, s, a, r, sp, done) ==
    LET x      == BlockVec(self, s, a)
        a_max  == argmax(_get_q_values(self, sp))
        max_xp == BlockVec(self, sp, a_max)
        xw     == Dot(x, self.w)
        xh     == Dot(x, self.h)
        delta  == IF ~done
                  THEN RSub(RAdd(Int2R(r), RMul(self.gamma, Dot(max_xp, self.w))), xw)
                  ELSE RSub(Int2R(r), xw)
    IN  [w |-> [k \in DOMAIN self.w |->
                  IF ~done
                  THEN RAdd(self.w[k],
                            RMul(self.alpha,
                                 RSub(RMul(delta, x[k]),
                                      RMul(RMul(self.gamma, xh), max_xp[k]))))
                  ELSE RAdd(self.w[k], RMul(RMul(self.alpha, delta), x[k]))],
         h |-> [k \in DOMAIN self.h |->
                  RAdd(self.h[k], RMul(RMul(self.beta, RSub(delta, xh)), x[k]))]]

(***************************************************************************)
(* save / load                                                             *)
(***************************************************************************)
\* dct of save after the two del statements; dct is self.__dict__ itself
SaveDict(self) ==
    [k \in DOMAIN self \ {"env", "exploration_schedule"} |-> self[k]]

\* variant of LoadDict that keeps the freshly constructed object's fields
LoadDict_fresh(dct, e, obj) == obj

\* obj.__dict__ of load: the pickled dct, updated with env and the schedule
\* of the freshly constructed obj
LoadDict(dct, e, obj) ==
    [k \in DOMAIN dct \cup {"env", "exploration_schedule"} |->
        IF k = "env" THEN e
        ELSE IF k = "exploration_schedule" THEN obj.exploration_schedule
        ELSE dct[k]]

(***************************************************************************)
(* learn: loop control                                                     *)
(***************************************************************************)
\* variant of LoopCond with <=
LoopCond_le(num, total) == num <= total

\* while num_timesteps < total_timesteps
LoopCond(num, total) == num < total

\* variant of ProgressRemaining giving the elapsed fraction
ProgressRemaining_elapsed(num, total) == RDiv(Int2R(num), Int2R(total))

\* 1 - num_timesteps / total_timesteps
ProgressRemaining(num, total) == RSub(One, RDiv(Int2R(num), Int2R(total)))

(***************************************************************************)
(* State                                                                   *)
(***************************************************************************)
VARIABLES
    env,              \* the environment handed to FARL(...) and to load
    args,             \* the keyword arguments the agent was constructed with
    agent,            \* __dict__ of the agent
    file,             \* the pickled dict at path, or NoDict
    loaded,           \* __dict__ of the agent FARL.load returned, or NoDict
    ret,              \* action returned by the last predict: <<a>>, or <<>>
    raised,           \* exception that ended the last call, or "none"
    pc,               \* "idle", or the position inside learn
    env_obs,          \* observation the environment is in
    learn_status,     \* "not_called", "running", "returned" or "raised"
    total_timesteps,  \* learn: argument
    num_timesteps,    \* learn: local
    i_episode,        \* learn: local
    stats,            \* learn: local
    t,                \* learn: inner loop counter
    state,            \* learn: encoded current state
    action,           \* learn: sampled action
    reward,           \* learn: reward of the last env.step
    new_state,        \* learn: encoded successor state
    done,             \* learn: terminated or truncated
    updates           \* number of _update calls made by the current learn

learnVars == <<total_timesteps, num_timesteps, i_episode, stats, t, state,
               action, reward, new_state, done, updates>>
vars == <<env, env_obs, args, agent, file, loaded, ret, raised, pc, learn_status,
          learnVars>>

NoDict == <<>>
IsDict(d) == DOMAIN d # {}

\* values of the learn locals before the first learn call
LearnIdle ==
    /\ pc = "idle"
    /\ learn_status = "not_called"
    /\ total_timesteps = 0
    /\ num_timesteps = 0
    /\ i_episode = 0
    /\ stats = [episode_rewards |-> <<>>, episode_lengths |-> <<>>]
    /\ t = 0
    /\ state = <<>>
    /\ action = 0
    /\ reward = 0
    /\ new_state = <<>>
    /\ done = FALSE
    /\ updates = 0

Half == <<1, 2>>
Quarter == <<1, 4>>

\* exploration parameters the agents are constructed with
ExplParams ==
    {<<DefaultArgs.exploration_initial_eps, DefaultArgs.exploration_final_eps,
       DefaultArgs.exploration_fraction>>,
     <<Half, Zero, <<3, 4>> >>}

ArgSets(betas) ==
    {[exploration_initial_eps |-> e[1],
      exploration_final_eps   |-> e[2],
      exploration_fraction    |-> e[3],
      gamma                   |-> Half,
      alpha                   |-> Half,
      beta                    |-> b,
      verbose                 |-> FALSE,
      feature_representation  |-> fr] :
        e \in ExplParams, b \in betas, fr \in {"fsr", "tabular"}}

InitWith(envs, argsets) ==
    /\ env \in envs
    /\ env_obs = StubObs(env.nvec, 0)
    /\ args \in argsets
    /\ agent \in Constructed(env, args)
    /\ file = NoDict
    /\ loaded = NoDict
    /\ ret = <<>>
    /\ raised = "none"
    /\ LearnIdle

Init == InitWith({MakeEnv(<<1, 2>>, 2, k) : k \in StubKinds}, ArgSets({Quarter}))

(***************************************************************************)
(* learn                                                                   *)
(***************************************************************************)
\* learn(total_timesteps): lines 117-122
LearnCall(total) ==
    /\ pc = "idle"
    /\ learn_status = "not_called"
    /\ learn_status' = "running"
    /\ total_timesteps' = total
    /\ num_timesteps' = 0
    /\ i_episode' = 0
    /\ stats' = [episode_rewards |-> <<>>, episode_lengths |-> <<>>]
    /\ updates' = 0
    /\ raised' = "none"
    /\ pc' = "while"
    /\ UNCHANGED <<env, env_obs, args, agent, file, loaded, ret, t, state, action,
                   reward, new_state, done>>

\* lines 123-129: the loop test passes and an episode starts
EpisodeStart(obs) ==
    /\ pc = "while"
    /\ LoopCond(num_timesteps, total_timesteps)
    /\ "exploration_schedule" \in DOMAIN agent
    /\ "env" \in DOMAIN agent
    /\ agent' = [agent EXCEPT !.exploration_rate =
                    func(agent.exploration_schedule,
                         ProgressRemaining(num_timesteps, total_timesteps))]
    /\ stats' = [episode_rewards |-> Append(stats.episode_rewards, 0),
                 episode_lengths |-> Append(stats.episode_lengths, 0)]
    /\ env_obs' = obs
    /\ state' = _extract_features(agent, obs)
    /\ t' = 0
    /\ pc' = "step"
    /\ UNCHANGED <<env, args, file, loaded, ret, raised, learn_status,
                   total_timesteps, num_timesteps, i_episode, action, reward,
                   new_state, done, updates>>

\* line 124 on an agent whose __dict__ lost exploration_schedule
EpisodeStartRaise ==
    /\ pc = "while"
    /\ LoopCond(num_timesteps, total_timesteps)
    /\ "exploration_schedule" \notin DOMAIN agent
    /\ raised' = "AttributeError"
    /\ learn_status' = "raised"
    /\ pc' = "idle"
    /\ UNCHANGED <<env, env_obs, args, agent, file, loaded, ret, learnVars>>

\* line 123: the loop test fails and learn returns
LearnReturn ==
    /\ pc = "while"
    /\ ~LoopCond(num_timesteps, total_timesteps)
    /\ learn_status' = "returned"
    /\ pc' = "idle"
    /\ UNCHANGED <<env, env_obs, args, agent, file, loaded, ret, raised, learnVars>>

\* lines 133-140: sample an action, step the environment, encode, book-keep
EnvStep(a) ==
    /\ pc = "step"
    /\ a \in Choices(_action_proba_distribution(agent, state))
    /\ LET out       == env.step[<<env_obs, a>>]
           truncated == (t + 1 >= MaxEpLen)
       IN  /\ env_obs' = out.obs
           /\ action' = a
           /\ new_state' = _extract_features(agent, out.obs)
           /\ reward' = out.reward
           /\ done' = (out.terminated \/ truncated)
           /\ stats' = [episode_rewards |->
                           [stats.episode_rewards EXCEPT
                               ![i_episode + 1] = @ + out.reward],
                        episode_lengths |->
                           [stats.episode_lengths EXCEPT ![i_episode + 1] = t + 1]]
    /\ pc' = "update"
    /\ UNCHANGED <<env, args, agent, file, loaded, ret, raised, learn_status,
                   total_timesteps, num_timesteps, i_episode, t, state, updates>>

\* lines 142-149: update the weights, advance, leave the episode when done
\* (the verbose summary of lines 151-162 prints and appends to a log file only)
UpdateStep ==
    /\ pc = "update"
    /\ LET u == _update(agent, state, action, reward, new_state, done)
       IN  agent' = [agent EXCEPT !.w = u.w, !.h = u.h]
    /\ state' = new_state
    /\ updates' = updates + 1
    /\ IF done
       THEN /\ num_timesteps' = num_timesteps + t + 1
            /\ i_episode' = i_episode + 1
            /\ pc' = "while"
            /\ t' = t
       ELSE /\ t' = t + 1
            /\ pc' = "step"
            /\ UNCHANGED <<num_timesteps, i_episode>>
    /\ UNCHANGED <<env, env_obs, args, file, loaded, ret, raised, learn_status,
                   total_timesteps, stats, action, reward, new_state, done>>

(***************************************************************************)
(* predict, save, load                                                     *)
(***************************************************************************)
\* the actions predict(observation, deterministic) can return
predict(self, observation, deterministic) ==
    LET obs == _extract_features(self, observation)
    IN  IF deterministic
        THEN {argmax(_get_q_values(self, obs))}
        ELSE Choices(_action_proba_distribution(self, obs))

\* the agents a caller holds: the constructed one and the one load returned
Agents == {agent} \cup (IF IsDict(loaded) THEN {loaded} ELSE {})

\* self.predict(observation, deterministic)
PredictCall(self, observation, deterministic) ==
    /\ pc = "idle"
    /\ \E a \in predict(self, observation, deterministic) : ret' = <<a>>
    /\ raised' = "none"
    /\ UNCHANGED <<env, env_obs, args, agent, file, loaded, pc, learn_status,
                   learnVars>>

\* save(path)
SaveCall ==
    /\ pc = "idle"
    /\ "env" \in DOMAIN agent
    /\ "exploration_schedule" \in DOMAIN agent
    /\ agent' = SaveDict(agent)
    /\ file' = SaveDict(agent)
    /\ raised' = "none"
    /\ UNCHANGED <<env, env_obs, args, loaded, ret, pc, learn_status, learnVars>>

\* save(path) on an agent whose __dict__ has no 'env': del raises
SaveRaise ==
    /\ pc = "idle"
    /\ "env" \notin DOMAIN agent
    /\ raised' = "KeyError"
    /\ UNCHANGED <<env, env_obs, args, agent, file, loaded, ret, pc, learn_status, learnVars>>

\* FARL.load(path, env)
LoadCall ==
    /\ pc = "idle"
    /\ IsDict(file)
    /\ \E obj \in Constructed(env, DefaultArgs) : loaded' = LoadDict(file, env, obj)
    /\ raised' = "none"
    /\ UNCHANGED <<env, env_obs, args, agent, file, ret, pc, learn_status, learnVars>>

Next ==
    \/ \E total \in 1..MaxTotal : LearnCall(total)
    \/ \E obs \in Observations(env.nvec) : EpisodeStart(obs)
    \/ EpisodeStartRaise
    \/ LearnReturn
    \/ \E a \in 0..(env.n - 1) : EnvStep(a)
    \/ UpdateStep
    \/ \E self \in Agents, obs \in Observations(env.nvec), det \in BOOLEAN :
          PredictCall(self, obs, det)
    \/ SaveCall
    \/ SaveRaise
    \/ LoadCall

Spec == Init /\ [][Next]_vars

(***************************************************************************)
(* Construction over a wider range of observation spaces and arguments,    *)
(* followed by predict, save and load only.                                *)
(***************************************************************************)
RECURSIVE NvecsOfLen(_)
NvecsOfLen(k) ==
    IF k = 0 THEN {<<>>}
    ELSE {Append(v, c) : v \in NvecsOfLen(k - 1), c \in 1..MaxCard}

Nvecs == UNION {NvecsOfLen(k) : k \in 1..MaxDims}

InitFn == InitWith({MakeEnv(nvec, 2, 0) : nvec \in Nvecs}, ArgSets({NoneBeta, Quarter}))

NextFn ==
    \/ \E self \in Agents, obs \in Observations(env.nvec), det \in BOOLEAN :
          PredictCall(self, obs, det)
    \/ SaveCall
    \/ SaveRaise
    \/ LoadCall

SpecFn == InitFn /\ [][NextFn]_vars

(***************************************************************************)
(* Properties                                                              *)
(***************************************************************************)
\* values of progress_remaining in [0, 1]
ProgressGrid == {Norm(k, 20) : k \in 0..20}

HasSchedule == "exploration_schedule" \in DOMAIN agent
InEpisode == pc \in {"step", "update"}
Bias(v) == v[Len(v)]

\* C1: after save and FARL.load with the same environment, the loaded agent
\* has the weight vectors w and h of the saved agent and predicts the same
\* action (deterministic) for every valid observation.
C1_RoundTrip ==
    IsDict(loaded) =>
        /\ loaded.w = agent.w
        /\ loaded.h = agent.h
        /\ \A obs \in Observations(env.nvec) :
              predict(loaded, obs, TRUE) = predict(agent, obs, TRUE)

\* C1 witness: a trained tabular agent was saved and loaded
C1_Witness ==
    /\ IsDict(loaded)
    /\ updates >= 2
    /\ agent.feature_representation = "tabular"

\* C2 (as claimed): the schedule of the agent load returns gives the same
\* epsilon as the schedule the saved agent was constructed with, for every
\* progress_remaining.
C2_ScheduleRestored ==
    IsDict(loaded) =>
        \A p \in ProgressGrid :
            func(loaded.exploration_schedule, p) =
            func(get_linear_fn(args.exploration_initial_eps,
                               args.exploration_final_eps,
                               args.exploration_fraction), p)

C4_LoopBound ==
    /\ InEpisode => num_timesteps < total_timesteps
    /\ learn_status = "returned" =>
          LET lens == stats.episode_lengths
          IN  /\ Len(lens) >= 1
              /\ \A i \in 1..Len(lens) : lens[i] >= 1
              /\ num_timesteps = IntSum(lens, Len(lens))
              /\ total_timesteps <= num_timesteps
              /\ num_timesteps < total_timesteps + lens[Len(lens)]

\* C4 witness: learn returned after two episodes, overshooting the budget
C4_Witness ==
    /\ learn_status = "returned"
    /\ Len(stats.episode_lengths) = 2
    /\ num_timesteps > total_timesteps

\* C5: w and h change only in the update step of learn, which runs once per
\* environment step (the count of _update calls equals the count of
\* environment steps once the update of a step has run); predict, save and
\* load leave them unchanged; their length stays n_obs * n_act + 1.
C5_WeightsFrame ==
    /\ [][(agent'.w # agent.w \/ agent'.h # agent.h)
             => (pc = "update" /\ updates' = updates + 1)]_vars
    /\ [](/\ Len(agent.w) = agent.n_obs * agent.n_act + 1
          /\ Len(agent.h) = agent.n_obs * agent.n_act + 1
          /\ IntSum(stats.episode_lengths, Len(stats.episode_lengths))
                = updates + (IF pc = "update" THEN 1 ELSE 0))

\* C5 witness: after a learn with a non-terminal and a terminal update,
\* save and predict have run
C5_Witness ==
    /\ learn_status = "returned"
    /\ updates >= 2
    /\ IsDict(file)
    /\ ret # <<>>

\* C6: during learn the exploration rate changes only when an episode
\* starts, and throughout an episode it equals
\* schedule(1 - T / total_timesteps), T the count before that episode.
C6_EpsPerEpisode ==
    /\ [][agent'.exploration_rate # agent.exploration_rate
             => (pc = "while" /\ pc' = "step")]_vars
    /\ [](InEpisode =>
            agent.exploration_rate =
                func(agent.exploration_schedule,
                     RSub(One, RDiv(Int2R(num_timesteps), Int2R(total_timesteps)))))

\* C6 witness: second step of an episode that started with T > 0 and an
\* epsilon other than the initial one
C6_Witness ==
    /\ pc = "update"
    /\ t >= 1
    /\ num_timesteps > 0
    /\ agent.exploration_rate # func(agent.exploration_schedule, One)

\* C7: with done = true the weights _update produces do not depend on the
\* successor features: for the transition at hand, every successor
\* observation gives the same w and h.
C7_TerminalNoBootstrap ==
    pc = "update" =>
        \A o2 \in Observations(env.nvec) :
            _update(agent, state, action, reward, _extract_features(agent, o2), TRUE)
            = _update(agent, state, action, reward, new_state, TRUE)

\* C7 witness: a terminal transition whose update would depend on the
\* successor were it not terminal
C7_Witness ==
    /\ pc = "update"
    /\ done
    /\ \E o2 \in Observations(env.nvec) :
          _update(agent, state, action, reward, _extract_features(agent, o2), FALSE)
          # _update(agent, state, action, reward, new_state, FALSE)

\* row-major position of s: dimension i weighs the product of the later
\* cardinalities
RowMajor(nvec, s) ==
    IntSum([i \in 1..Len(nvec) |->
               s[i] * IntProd([k \in 1..(Len(nvec) - i) |-> nvec[i + k]],
                              Len(nvec) - i)],
           Len(nvec))

\* C8: the tabular encoder maps every valid observation to a vector of
\* length product-of-cardinalities with exactly one 1, at the row-major
\* index, which lies in [0, product); distinct observations get distinct
\* vectors.
C8_TabularBijective ==
    agent.feature_representation = "tabular" =>
        LET nvec == agent.obs_nvec
            P    == IntProd(nvec, Len(nvec))
            enc  == [s \in Observations(nvec) |-> _multi_discrete_to_onehot(agent, s)]
        IN  /\ \A s \in Observations(nvec) :
                  /\ Len(enc[s]) = P
                  /\ RowMajor(nvec, s) \in 0..(P - 1)
                  /\ \A j \in 1..P : enc[s][j] = (IF j = RowMajor(nvec, s) + 1 THEN 1 ELSE 0)
            /\ \A s1, s2 \in Observations(nvec) : s1 # s2 => enc[s1] # enc[s2]

\* C8 witness: predict ran on a tabular agent over two dimensions of
\* different cardinality
C8_Witness ==
    /\ agent.feature_representation = "tabular"
    /\ Len(agent.obs_nvec) = 2
    /\ agent.obs_nvec[1] # agent.obs_nvec[2]
    /\ ret # <<>>

\* C9 (as claimed): save leaves the agent as it was: once a file has been
\* written the agent still holds its environment and its schedule.
C9_SaveLeavesAgent ==
    IsDict(file) => {"env", "exploration_schedule"} \subseteq DOMAIN agent

\* C10: the bias coordinate (last slot) of w and of h is 0 after
\* construction and after every update, terminal or not.
C10_BiasZero ==
    /\ Bias(agent.w) = Zero
    /\ Bias(agent.h) = Zero
    /\ IsDict(loaded) => (Bias(loaded.w) = Zero /\ Bias(loaded.h) = Zero)

\* C10 witness: an episode with a non-terminal and a terminal update ended
C10_Witness ==
    /\ pc = "while"
    /\ updates >= 2
    /\ stats.episode_lengths[1] = 2

====
